---- MODULE Spec2Model ----
(***************************************************************************)
(* Model of neckbeard's RdsNodeDeployment                                  *)
(* (src/neckbeard/cloud_provisioners/aws/rds.py): seed resolution,         *)
(* node creation, drift detection and reconciliation of one RDS node       *)
(* against an asynchronous provider.                                       *)
(*                                                                         *)
(* Python strings are sequences of one-character strings; Python values    *)
(* (int, bool, str) are records [k, n, s] so that str() is a computation.  *)
(***************************************************************************)
EXTENDS Integers, Sequences, FiniteSets, TLC

VARIABLES
    pc,                 \* position of the controller in the running method
    conf,               \* deployment_confs['rds'][node_name]['conf']
    live,               \* the provider's resource (status, attributes, pending)
    node,               \* node.boto_instance: the last refreshed copy of live
    differs,            \* result of the last _parameters_differ
    seed_node,          \* self.seed_node is set
    seed_verification,  \* self.seed_verification
    is_active,          \* self.is_active
    seed_snapshot_id,   \* self.seed_snapshot_id (None or a string)
    lag,                \* restoration lag of the seed node, in minutes
    action,             \* last answer of the operator prompt
    prompts,            \* number of prompt() calls made
    polls,              \* statuses returned by get_all_dbsnapshots so far
    calls,              \* provider and registry calls issued, in order
    gsd,                \* how get_seed_data ended: "none", "returned", ...
    first_run,          \* first_run argument of the running deploy
    deploys,            \* the deploy calls started: first_run and whether the
                        \* live resource matched the declaration at that time
    overrides,          \* DB_PARAMETER_GROUPS[conf['rds_parameter_group']].items()
    pg_values,          \* the provider's parameter group: name -> value
    required_restart,   \* value returned by the last _modify_db_config
    request,            \* modification/reboot the provider has accepted, not yet done
    seen_available,     \* a refresh has observed 'available' since the last
                        \* parameter-group push or modify call
    local_ip,           \* self._local_ip
    retries,            \* retries in the running get_ip
    response,           \* outcome of the last urlopen(IP_SERVICE_URL).read()
    requests,           \* requests made to the discovery endpoint, per get_ip call
    sleeps,             \* time.sleep(5) calls made, per get_ip call
    ip_returned         \* values returned by the get_ip calls, in order

vars == <<pc, conf, live, node, differs, seed_node, seed_verification, is_active,
          seed_snapshot_id, lag, action, prompts, polls, calls, gsd, first_run,
          deploys, overrides, pg_values, required_restart, request,
          seen_available, local_ip, retries, response, requests, sleeps,
          ip_returned>>

ipvars == <<local_ip, retries, response, requests, sleeps, ip_returned>>

None == "None"

-----------------------------------------------------------------------------
(* Python strings and values *)

Range(s) == {s[i] : i \in 1..Len(s)}

\* characters str.strip() removes
IsSpace(c) == c \in {" ", "\t", "\n"}

\* str.lower() on one character, over the alphabet the model uses
LowerChar(c) ==
    CASE c = "A" -> "a"
      [] c = "F" -> "f"
      [] c = "G" -> "g"
      [] c = "M" -> "m"
      [] c = "P" -> "p"
      [] c = "T" -> "t"
      [] OTHER -> c

Lower(s) == [i \in 1..Len(s) |-> LowerChar(s[i])]

RECURSIVE LStrip(_)
LStrip(s) ==
    IF s # <<>> /\ IsSpace(Head(s)) THEN LStrip(Tail(s)) ELSE s

RECURSIVE RStrip(_)
RStrip(s) ==
    IF s # <<>> /\ IsSpace(s[Len(s)]) THEN RStrip(SubSeq(s, 1, Len(s) - 1)) ELSE s

\* str.strip()
Strip(s) == RStrip(LStrip(s))

IntV(n) == [k |-> "int", n |-> n, s |-> <<>>]
BoolV(b) == [k |-> "bool", n |-> IF b THEN 1 ELSE 0, s |-> <<>>]
StrV(s) == [k |-> "str", n |-> 0, s |-> s]
NoneV == [k |-> "none", n |-> 0, s |-> <<>>]

DigitChar == <<"0", "1", "2", "3", "4", "5", "6", "7", "8", "9">>

RECURSIVE Digits(_)
Digits(n) ==
    IF n < 10 THEN <<DigitChar[n + 1]>>
    ELSE Digits(n \div 10) \o <<DigitChar[(n % 10) + 1]>>

\* str(v) of a Python int, bool or str
Str(v) ==
    CASE v.k = "int" -> Digits(v.n)
      [] v.k = "bool" -> IF v.n = 1 THEN <<"T", "r", "u", "e">>
                         ELSE <<"F", "a", "l", "s", "e">>
      [] OTHER -> v.s

-----------------------------------------------------------------------------
(* _parameters_differ *)

checked_params == <<"rds_allocated_storage", "rds_instance_class",
                    "rds_preferred_maintenance_window",
                    "rds_backup_retention_period",
                    "rds_preferred_backup_window", "rds_multi_az">>

\* checked_param.replace('rds_', '') on the six checked names
RdsParam(checked_param) ==
    CASE checked_param = "rds_allocated_storage" -> "allocated_storage"
      [] checked_param = "rds_instance_class" -> "instance_class"
      [] checked_param = "rds_preferred_maintenance_window" ->
             "preferred_maintenance_window"
      [] checked_param = "rds_backup_retention_period" -> "backup_retention_period"
      [] checked_param = "rds_preferred_backup_window" -> "preferred_backup_window"
      [] checked_param = "rds_multi_az" -> "multi_az"

NormalizeUnstripped(v) == Lower(Str(v))

\* str(x).lower().strip()
Normalize(v) == Strip(Lower(Str(v)))

\* the groups_changed flag after both group tests
GroupsChanged(inst, c) ==
    LET sg_changed == inst.security_group \notin Range(c.rds_security_groups)
        pg_changed == inst.parameter_group # c.rds_parameter_group
    IN  IF pg_changed THEN TRUE ELSE sg_changed

RECURSIVE DiffParams(_, _, _)
\* the diff_params list built by the loop over checked_params
DiffParams(inst, c, params) ==
    IF params = <<>> THEN <<>>
    ELSE LET checked_param == Head(params)
             defined_val == Normalize(c[checked_param])
             actual_val == Normalize(inst[RdsParam(checked_param)])
         IN  (IF defined_val # actual_val THEN <<checked_param>> ELSE <<>>)
             \o DiffParams(inst, c, Tail(params))

\* return value of _parameters_differ on the refreshed instance
ParametersDiffer(inst, c) ==
    DiffParams(inst, c, checked_params) # <<>> \/ GroupsChanged(inst, c)

-----------------------------------------------------------------------------
(* Drift detection on its own: every declared config against every live state *)

Instance(status, pending, storage, class, mwindow, retention, bwindow, maz, sg, pg) ==
    [status |-> status, pending_modified_values |-> pending,
     allocated_storage |-> storage, instance_class |-> class,
     preferred_maintenance_window |-> mwindow,
     backup_retention_period |-> retention,
     preferred_backup_window |-> bwindow, multi_az |-> maz,
     security_group |-> sg, parameter_group |-> pg]

Conf(storage, class, mwindow, retention, bwindow, maz, sgs, pg) ==
    [rds_allocated_storage |-> storage, rds_instance_class |-> class,
     rds_preferred_maintenance_window |-> mwindow,
     rds_backup_retention_period |-> retention,
     rds_preferred_backup_window |-> bwindow, rds_multi_az |-> maz,
     rds_security_groups |-> sgs, rds_parameter_group |-> pg,
     rds_master_username |-> "admin", rds_master_password |-> "secret",
     rds_availability_zone |-> "us-east-1a"]

DiffConfs ==
    {Conf(st, cl, StrV(<<"m">>), IntV(1), StrV(<<"w">>), maz, sgs, "p") :
        st \in {IntV(10), StrV(<<"1", "0">>)},
        cl \in {StrV(<<"a">>), StrV(<<" ", "A", "\t">>)},
        maz \in {BoolV(TRUE), StrV(<<"t", "r", "u", "e">>), BoolV(FALSE)},
        sgs \in {<<>>, <<"g">>, <<"g", "h">>}}

DiffInstances ==
    {Instance("available", {}, st, cl, mw, IntV(rt), bw, BoolV(maz), sg, pg) :
        st \in {IntV(10), IntV(5)},
        cl \in {StrV(<<"a">>), StrV(<<"a", " ", "a">>)},
        mw \in {StrV(<<"M", " ">>), StrV(<<"n">>)},
        rt \in {1, 11},
        bw \in {StrV(<<"w">>), StrV(<<>>)},
        maz \in BOOLEAN,
        sg \in {"g", "h", "G"},
        pg \in {"p", "P", "p "}}

NoCalls == <<>>

\* the variables one specification does not use keep these values
ControllerIdle ==
    /\ seed_node = FALSE
    /\ seed_verification = FALSE
    /\ is_active = FALSE
    /\ seed_snapshot_id = None
    /\ lag = 0
    /\ action = None
    /\ prompts = 0
    /\ polls = <<>>
    /\ calls = NoCalls
    /\ gsd = "none"
    /\ first_run = FALSE
    /\ deploys = <<>>
    /\ overrides = <<>>
    /\ pg_values = <<>>
    /\ required_restart = FALSE
    /\ request = None

\* a controller that has not looked up its address
IpIdle ==
    /\ local_ip = NoneV
    /\ retries = 0
    /\ response = [kind |-> "none", body |-> <<>>]
    /\ requests = <<>>
    /\ sleeps = <<>>
    /\ ip_returned = <<>>

InitDiff ==
    /\ pc = "parameters_differ"
    /\ conf \in DiffConfs
    /\ live \in DiffInstances
    /\ node = live
    /\ differs = FALSE
    /\ ControllerIdle
    /\ seen_available = FALSE
    /\ IpIdle

\* one call of _parameters_differ: refresh, then compare
ParametersDifferCall ==
    /\ pc = "parameters_differ"
    /\ node' = live
    /\ differs' = ParametersDiffer(node', conf)
    /\ pc' = "compared"
    /\ UNCHANGED <<conf, live, seed_node, seed_verification, is_active,
                   seed_snapshot_id, lag, action, prompts, polls, calls, gsd,
                   first_run, deploys, overrides, pg_values, required_restart,
                   request, seen_available, ipvars>>

NextDiff == ParametersDifferCall

SpecDiff == InitDiff /\ [][NextDiff]_vars

-----------------------------------------------------------------------------
(* Seed resolution and node creation: get_seed_data, create_new_node, launch *)

MAX_RESTORABLE_LAG == 15

MaxPrompts == 3
MaxPolls == 3

opts == {"F", "S", "E"}

\* what the operator can type at the choice prompt
Answers == opts \cup {"x", ""}

\* what the operator can type at "Enter snapshot id:"
TypedSnapshotIds == {"", "rds-snap-1"}

\* id of the snapshot _create_snapshot takes: the label it builds
FreshSnapshotId == "dep-dbseed20140101-000000"

SnapshotStatuses == {"creating", "available", "failed"}

LagValues == {10, 15, 16, 20}

\* Python truth value of self.seed_snapshot_id
Truthy(x) == x # None /\ x # ""

\* a call issued, with the number of the deploy call that issued it (0: none)
Call(op, args) == [op |-> op, args |-> args, deploy |-> Len(deploys)]

NoArgs == [none |-> TRUE]

CanonicalConf(maz) ==
    Conf(IntV(10), StrV(<<"a">>), StrV(<<"m">>), IntV(1), StrV(<<"w">>),
         BoolV(maz), <<"g">>, "p")

IdleInstance ==
    Instance("creating", {}, IntV(10), StrV(<<"a">>), StrV(<<"m">>), IntV(1),
             StrV(<<"w">>), BoolV(FALSE), "g", "p")

InitCreate ==
    /\ pc \in {"get_seed_data", "create_new_node"}
    /\ conf \in {CanonicalConf(maz) : maz \in BOOLEAN}
    /\ live = IdleInstance
    /\ node = live
    /\ differs = FALSE
    /\ seed_node \in BOOLEAN
    /\ seed_verification \in BOOLEAN
    /\ is_active \in BOOLEAN
    /\ seed_snapshot_id = None
    /\ lag \in IF seed_node THEN LagValues ELSE {0}
    /\ action = None
    /\ prompts = 0
    /\ polls = <<>>
    /\ calls = NoCalls
    /\ gsd = "none"
    /\ first_run = FALSE
    /\ deploys = <<>>
    /\ overrides = <<>>
    /\ pg_values = <<>>
    /\ required_restart = FALSE
    /\ request = None
    /\ seen_available = FALSE
    /\ IpIdle

CreateUnchanged ==
    UNCHANGED <<conf, live, node, differs, seed_node, seed_verification, is_active,
                lag, first_run, deploys, overrides, pg_values, required_restart,
                request, seen_available, ipvars>>

CreateSnapshotIdDropped ==
    /\ calls' = Append(calls, Call("snapshot", [label |-> FreshSnapshotId]))
    /\ seed_snapshot_id' = seed_snapshot_id

\* _create_snapshot: snapshot the seed node, remember the snapshot's id
CreateSnapshot ==
    /\ calls' = Append(calls, Call("snapshot", [label |-> FreshSnapshotId]))
    /\ seed_snapshot_id' = FreshSnapshotId

LagTooHighAtBoundary(l) == l >= MAX_RESTORABLE_LAG

\* restoration_lag > MAX_RESTORABLE_LAG
LagTooHigh(l) == l > MAX_RESTORABLE_LAG

\* get_seed_data up to its first prompt
GetSeedData ==
    /\ pc = "get_seed_data"
    /\ IF seed_node /\ seed_verification
       THEN /\ CreateSnapshot
            /\ gsd' = "returned"
            /\ pc' = "create_new_node"
       ELSE IF seed_node /\ ~LagTooHigh(lag)
       THEN /\ gsd' = "returned"
            /\ pc' = "create_new_node"
            /\ UNCHANGED <<calls, seed_snapshot_id>>
       ELSE /\ gsd' = "prompting"
            /\ pc' = "prompt"
            /\ UNCHANGED <<calls, seed_snapshot_id>>
    /\ UNCHANGED <<action, prompts, polls>>
    /\ CreateUnchanged

PromptAskedOnce ==
    /\ pc = "prompt"
    /\ prompts < MaxPrompts
    /\ \E answer \in Answers :
        /\ action' = answer
        /\ pc' = "chosen"
    /\ prompts' = prompts + 1
    /\ UNCHANGED <<seed_snapshot_id, polls, calls, gsd>>
    /\ CreateUnchanged

\* one round of: while action not in opts: action = prompt(...)
Prompt ==
    /\ pc = "prompt"
    /\ prompts < MaxPrompts
    /\ \E answer \in Answers :
        /\ action' = answer
        /\ pc' = IF answer \in opts THEN "chosen" ELSE "prompt"
    /\ prompts' = prompts + 1
    /\ UNCHANGED <<seed_snapshot_id, polls, calls, gsd>>
    /\ CreateUnchanged

\* action == 'S': _create_snapshot reads self.seed_node.boto_instance, which
\* raises AttributeError when there is no seed node
ChooseSnapshot ==
    /\ pc = "chosen"
    /\ action = "S"
    /\ IF seed_node
       THEN /\ CreateSnapshot
            /\ gsd' = "returned"
            /\ pc' = "create_new_node"
       ELSE /\ gsd' = "raised"
            /\ pc' = "raised"
            /\ UNCHANGED <<calls, seed_snapshot_id>>
    /\ UNCHANGED <<action, prompts, polls>>
    /\ CreateUnchanged

\* action == 'E': self.seed_snapshot_id = prompt("Enter snapshot id:")
ChooseExisting ==
    /\ pc = "chosen"
    /\ action = "E"
    /\ \E typed \in TypedSnapshotIds : seed_snapshot_id' = typed
    /\ gsd' = "returned"
    /\ pc' = "create_new_node"
    /\ UNCHANGED <<action, prompts, polls, calls>>
    /\ CreateUnchanged

\* else: exit(1)
ChooseFail ==
    /\ pc = "chosen"
    /\ action # "S"
    /\ action # "E"
    /\ gsd' = "exited"
    /\ pc' = "exited"
    /\ UNCHANGED <<action, prompts, polls, calls, seed_snapshot_id>>
    /\ CreateUnchanged

RestoreFromPointInTime ==
    Call("restore_dbinstance_from_point_in_time",
         [source_instance_id |-> "seed", use_latest |-> TRUE,
          dbinstance_class |-> conf.rds_instance_class,
          availability_zone |-> conf.rds_availability_zone])

CreateDbInstanceDefaultAz ==
    Call("create_dbinstance",
         [allocated_storage |-> conf.rds_allocated_storage,
          instance_class |-> conf.rds_instance_class,
          master_username |-> conf.rds_master_username,
          master_password |-> conf.rds_master_password,
          security_groups |-> conf.rds_security_groups,
          availability_zone |-> conf.rds_availability_zone,
          preferred_maintenance_window |-> conf.rds_preferred_maintenance_window,
          backup_retention_period |-> conf.rds_backup_retention_period,
          preferred_backup_window |-> conf.rds_preferred_backup_window,
          multi_az |-> BoolV(FALSE)])

\* create_dbinstance(id=rds_label, ..., multi_az=conf['rds_multi_az'])
CreateDbInstance ==
    Call("create_dbinstance",
         [allocated_storage |-> conf.rds_allocated_storage,
          instance_class |-> conf.rds_instance_class,
          master_username |-> conf.rds_master_username,
          master_password |-> conf.rds_master_password,
          security_groups |-> conf.rds_security_groups,
          availability_zone |-> conf.rds_availability_zone,
          preferred_maintenance_window |-> conf.rds_preferred_maintenance_window,
          backup_retention_period |-> conf.rds_backup_retention_period,
          preferred_backup_window |-> conf.rds_preferred_backup_window,
          multi_az |-> conf.rds_multi_az])

RestoreFromSnapshot(snapshot_id) ==
    Call("restore_dbinstance_from_dbsnapshot",
         [identifier |-> snapshot_id,
          instance_class |-> conf.rds_instance_class,
          availability_zone |-> conf.rds_availability_zone])

\* launch testing the seed node before the seed snapshot id
LaunchStartSeedFirst ==
    /\ pc = "create_new_node"
    /\ IF ~seed_node /\ Truthy(seed_snapshot_id)
       THEN /\ pc' = "launch_poll"
            /\ calls' = Append(calls, Call("get_new_rds_label", NoArgs))
       ELSE /\ pc' = "register"
            /\ calls' = calls \o <<Call("get_new_rds_label", NoArgs),
                                   IF seed_node THEN RestoreFromPointInTime
                                   ELSE CreateDbInstance>>
    /\ UNCHANGED <<action, prompts, polls, seed_snapshot_id, gsd>>
    /\ CreateUnchanged

\* create_new_node up to launch's choice of the seed source; the two branches
\* without a snapshot issue their call at once
LaunchStart ==
    /\ pc = "create_new_node"
    /\ IF Truthy(seed_snapshot_id)
       THEN /\ pc' = "launch_poll"
            /\ calls' = Append(calls, Call("get_new_rds_label", NoArgs))
       ELSE /\ pc' = "register"
            /\ calls' = calls \o <<Call("get_new_rds_label", NoArgs),
                                   IF seed_node THEN RestoreFromPointInTime
                                   ELSE CreateDbInstance>>
    /\ UNCHANGED <<action, prompts, polls, seed_snapshot_id, gsd>>
    /\ CreateUnchanged

LaunchPollOnce ==
    /\ pc = "launch_poll"
    /\ Len(polls) < MaxPolls
    /\ \E status \in SnapshotStatuses :
        /\ polls' = Append(polls, status)
        /\ pc' = "launch_restore"
    /\ UNCHANGED <<action, prompts, calls, seed_snapshot_id, gsd>>
    /\ CreateUnchanged

\* get_all_dbsnapshots(snapshot_id=self.seed_snapshot_id)[0], before and in the loop
LaunchPoll ==
    /\ pc = "launch_poll"
    /\ Len(polls) < MaxPolls
    /\ \E status \in SnapshotStatuses :
        /\ polls' = Append(polls, status)
        /\ pc' = IF status # "available" THEN "launch_poll" ELSE "launch_restore"
    /\ UNCHANGED <<action, prompts, calls, seed_snapshot_id, gsd>>
    /\ CreateUnchanged

\* restore_dbinstance_from_dbsnapshot(identifier=snapshot.id, ...)
LaunchRestore ==
    /\ pc = "launch_restore"
    /\ calls' = Append(calls, RestoreFromSnapshot(seed_snapshot_id))
    /\ pc' = "register"
    /\ UNCHANGED <<action, prompts, polls, seed_snapshot_id, gsd>>
    /\ CreateUnchanged

\* the rest of create_new_node: registry call, sleep, get_node
Register ==
    /\ pc = "register"
    /\ calls' = calls \o
           <<Call(IF is_active THEN "set_active_node" ELSE "set_pending_node",
                  NoArgs),
             Call("get_node", NoArgs)>>
    /\ pc' = "created"
    /\ UNCHANGED <<action, prompts, polls, seed_snapshot_id, gsd>>
    /\ CreateUnchanged

NextCreate ==
    \/ GetSeedData
    \/ Prompt
    \/ ChooseSnapshot
    \/ ChooseExisting
    \/ ChooseFail
    \/ LaunchStart
    \/ LaunchPoll
    \/ LaunchRestore
    \/ Register

SpecCreate == InitCreate /\ [][NextCreate]_vars

-----------------------------------------------------------------------------
(* Reconciliation: deploy, _modify_db_config, wait_until_created,            *)
(* configure_parameter_group, against a provider that works asynchronously  *)

MaxDeploys == 2

ProviderFields == {"allocated_storage", "instance_class",
                   "preferred_maintenance_window", "backup_retention_period",
                   "preferred_backup_window", "multi_az", "security_group",
                   "parameter_group"}

\* the value a modify call asks for in a field of the resource
Requested(l, field) ==
    CASE field = "security_group" ->
             IF l.security_group \in Range(conf.rds_security_groups)
                    \/ conf.rds_security_groups = <<>>
             THEN l.security_group
             ELSE conf.rds_security_groups[1]
      [] field = "parameter_group" -> conf.rds_parameter_group
      [] field = "allocated_storage" -> conf.rds_allocated_storage
      [] field = "instance_class" -> conf.rds_instance_class
      [] field = "preferred_maintenance_window" ->
             conf.rds_preferred_maintenance_window
      [] field = "backup_retention_period" -> conf.rds_backup_retention_period
      [] field = "preferred_backup_window" -> conf.rds_preferred_backup_window
      [] field = "multi_az" -> conf.rds_multi_az

\* the fields a modify call carrying conf would change
Changed(l) == {f \in ProviderFields : l[f] # Requested(l, f)}

\* l after the provider applied the requested values of the fields in F
Applied(l, F) ==
    [f \in DOMAIN l |-> IF f \in F THEN Requested(l, f) ELSE l[f]]

DeployConfs ==
    {Conf(IntV(10), StrV(<<"a">>), StrV(<<"m">>), IntV(1), StrV(<<"w">>),
          BoolV(maz), <<"g">>, "p") : maz \in BOOLEAN}

DeployInstances ==
    {Instance(status, {}, IntV(storage), StrV(<<"a">>), StrV(<<"m">>), IntV(1),
              StrV(<<"w">>), BoolV(maz), sg, "p") :
        status \in {"creating", "available"},
        storage \in {10, 5},
        maz \in BOOLEAN,
        sg \in {"g", "h"}}

\* items() of the overrides dict of the declared parameter group
OverrideLists ==
    {<<>>, <<[name |-> "max_connections", value |-> 100]>>,
     <<[name |-> "max_connections", value |-> 100],
       [name |-> "wait_timeout", value |-> 30]>>}

InitDeploy ==
    /\ pc = "idle"
    /\ conf \in DeployConfs
    /\ live \in DeployInstances
    /\ node = live
    /\ differs = FALSE
    /\ seed_node = FALSE
    /\ seed_verification = FALSE
    /\ is_active \in BOOLEAN
    /\ seed_snapshot_id = None
    /\ lag = 0
    /\ action = None
    /\ prompts = 0
    /\ polls = <<>>
    /\ calls = NoCalls
    /\ gsd = "none"
    /\ first_run = FALSE
    /\ deploys = <<>>
    /\ overrides \in OverrideLists
    /\ pg_values = <<>>
    /\ required_restart = FALSE
    /\ request = None
    /\ seen_available = FALSE
    /\ IpIdle

SeedUnchanged ==
    UNCHANGED <<conf, seed_node, seed_verification, is_active, seed_snapshot_id,
                lag, action, prompts, polls, gsd, overrides, ipvars>>

\* the provider finishes creating the resource, or fails to
ProviderCreate ==
    /\ live.status = "creating"
    /\ \E status \in {"available", "failed"} :
           live' = [live EXCEPT !.status = status]
    /\ UNCHANGED <<pc, node, differs, calls, first_run, deploys, pg_values,
                   required_restart, request, seen_available>>
    /\ SeedUnchanged

\* the provider starts on the modification or the reboot it accepted
ProviderStart ==
    /\ request # None
    /\ live.status = "available"
    /\ live' = [live EXCEPT !.status =
                    IF request = "reboot" THEN "rebooting" ELSE "modifying"]
    /\ UNCHANGED <<pc, node, differs, calls, first_run, deploys, pg_values,
                   required_restart, request, seen_available>>
    /\ SeedUnchanged

\* the provider ends a modification: some changed fields take their new
\* value, the others stay in pending_modified_values
ProviderModified ==
    /\ request = "modify"
    /\ live.status = "modifying"
    /\ \E pending \in SUBSET Changed(live) :
           live' = [Applied(live, Changed(live) \ pending) EXCEPT
                        !.status = "available",
                        !.pending_modified_values = pending]
    /\ request' = None
    /\ UNCHANGED <<pc, node, differs, calls, first_run, deploys, pg_values,
                   required_restart, seen_available>>
    /\ SeedUnchanged

\* the provider ends a reboot: pending values are applied, or stay pending
ProviderRebooted ==
    /\ request = "reboot"
    /\ live.status = "rebooting"
    /\ \E pending \in {{}, live.pending_modified_values} :
           live' = [Applied(live, live.pending_modified_values \ pending) EXCEPT
                        !.status = "available",
                        !.pending_modified_values = pending]
    /\ request' = None
    /\ UNCHANGED <<pc, node, differs, calls, first_run, deploys, pg_values,
                   required_restart, seen_available>>
    /\ SeedUnchanged

\* a call of deploy(node, first_run)
DeployCall ==
    /\ pc = "idle"
    /\ Len(deploys) < MaxDeploys
    /\ \E fr \in BOOLEAN :
        /\ first_run' = fr
        /\ deploys' = Append(deploys,
               [first_run |-> fr,
                in_sync |-> request = None /\ ~ParametersDiffer(live, conf)])
    /\ pc' = "deploy_wait_1"
    /\ UNCHANGED <<live, node, differs, calls, pg_values, required_restart,
                   request, seen_available>>
    /\ SeedUnchanged

\* a test that also accepts a failed resource
CreationCompleteOrFailed(n) == n.status \in {"available", "failed"}

\* creation_complete: refresh, test the status
CreationComplete(n) == n.status = "available"

\* one round of wait_until_created at position from; it returns to position to
WaitUntilCreated(from, to) ==
    /\ pc = from
    /\ node' = live
    /\ pc' = IF CreationComplete(node') THEN to ELSE from
    /\ seen_available' = (seen_available \/ node'.status = "available")
    /\ UNCHANGED <<live, differs, calls, first_run, deploys, pg_values,
                   required_restart, request>>
    /\ SeedUnchanged

DeployWait1 == WaitUntilCreated("deploy_wait_1", "configure_parameter_group")

RECURSIVE ApplyCalls(_)
\* the param.apply(immediate=True) calls of the loop over confs.items()
ApplyCalls(items) ==
    IF items = <<>> THEN <<>>
    ELSE <<Call("parameter_apply",
                [group |-> conf.rds_parameter_group, name |-> Head(items).name,
                 value |-> Head(items).value, immediate |-> TRUE])>>
         \o ApplyCalls(Tail(items))

RECURSIVE ApplyValues(_, _)
\* the parameter group after the applies
ApplyValues(values, items) ==
    IF items = <<>> THEN values
    ELSE ApplyValues(
             SelectSeq(values, LAMBDA v : v.name # Head(items).name)
                 \o <<Head(items)>>,
             Tail(items))

\* the overrides pushed only when the group does not hold them yet
ConfigureParameterGroupShortCircuit ==
    /\ pc = "configure_parameter_group"
    /\ calls' = IF pg_values = ApplyValues(pg_values, overrides) THEN calls
                ELSE calls \o ApplyCalls(overrides)
    /\ pg_values' = ApplyValues(pg_values, overrides)
    /\ seen_available' = FALSE
    /\ pc' = "deploy_wait_2"
    /\ UNCHANGED <<live, node, differs, first_run, deploys, required_restart,
                   request>>
    /\ SeedUnchanged

\* the overrides pushed with no wait after them
ConfigureParameterGroupNoWait ==
    /\ pc = "configure_parameter_group"
    /\ calls' = calls \o ApplyCalls(overrides)
    /\ pg_values' = ApplyValues(pg_values, overrides)
    /\ seen_available' = FALSE
    /\ pc' = "deploy_gate"
    /\ UNCHANGED <<live, node, differs, first_run, deploys, required_restart,
                   request>>
    /\ SeedUnchanged

\* configure_parameter_group(conf['rds_parameter_group'], DB_PARAMETER_GROUPS[...])
ConfigureParameterGroup ==
    /\ pc = "configure_parameter_group"
    /\ calls' = calls \o ApplyCalls(overrides)
    /\ pg_values' = ApplyValues(pg_values, overrides)
    /\ seen_available' = FALSE
    /\ pc' = "deploy_wait_2"
    /\ UNCHANGED <<live, node, differs, first_run, deploys, required_restart,
                   request>>
    /\ SeedUnchanged

DeployWait2 == WaitUntilCreated("deploy_wait_2", "deploy_gate")

DeployGateAlways ==
    /\ pc = "deploy_gate"
    /\ node' = live
    /\ differs' = ParametersDiffer(node', conf)
    /\ seen_available' = (seen_available \/ node'.status = "available")
    /\ pc' = "modify_db_config"
    /\ UNCHANGED <<live, calls, first_run, deploys, pg_values, required_restart,
                   request>>
    /\ SeedUnchanged

\* if first_run or self._parameters_differ(node, conf)
DeployGate ==
    /\ pc = "deploy_gate"
    /\ IF first_run
       THEN /\ pc' = "modify_db_config"
            /\ UNCHANGED <<node, differs, seen_available>>
       ELSE /\ node' = live
            /\ differs' = ParametersDiffer(node', conf)
            /\ seen_available' = (seen_available \/ node'.status = "available")
            /\ pc' = IF differs' THEN "modify_db_config" ELSE "idle"
    /\ UNCHANGED <<live, calls, first_run, deploys, pg_values, required_restart,
                   request>>
    /\ SeedUnchanged

ModifyDbInstance(apply_immediately) ==
    Call("modify_dbinstance",
         [allocated_storage |-> conf.rds_allocated_storage,
          instance_class |-> conf.rds_instance_class,
          master_password |-> conf.rds_master_password,
          security_groups |-> conf.rds_security_groups,
          preferred_maintenance_window |-> conf.rds_preferred_maintenance_window,
          backup_retention_period |-> conf.rds_backup_retention_period,
          preferred_backup_window |-> conf.rds_preferred_backup_window,
          param_group |-> conf.rds_parameter_group,
          multi_az |-> conf.rds_multi_az,
          apply_immediately |-> apply_immediately])

\* _modify_db_config asking for immediate application whatever first_run is
ModifyDbConfigImmediate ==
    /\ pc = "modify_db_config"
    /\ node' = live
    /\ calls' = Append(calls, ModifyDbInstance(TRUE))
    /\ request' = "modify"
    /\ seen_available' = FALSE
    /\ pc' = "modify_wait"
    /\ UNCHANGED <<live, differs, first_run, deploys, pg_values, required_restart>>
    /\ SeedUnchanged

\* _modify_db_config up to the sleep: refresh, modify_dbinstance
ModifyDbConfig ==
    /\ pc = "modify_db_config"
    /\ node' = live
    /\ calls' = Append(calls, ModifyDbInstance(first_run))
    /\ request' = "modify"
    /\ seen_available' = FALSE
    /\ pc' = "modify_wait"
    /\ UNCHANGED <<live, differs, first_run, deploys, pg_values, required_restart>>
    /\ SeedUnchanged

ModifyWait == WaitUntilCreated("modify_wait", "modify_check")

ModifyCheckRebootsActive ==
    /\ pc = "modify_check"
    /\ node' = live
    /\ IF node'.pending_modified_values # {} /\ node'.status # "modifying"
       THEN /\ calls' = Append(calls, Call("reboot", NoArgs))
            /\ request' = "reboot"
            /\ required_restart' = TRUE
            /\ pc' = "deploy_wait_3"
       ELSE /\ required_restart' = FALSE
            /\ pc' = "idle"
            /\ UNCHANGED <<calls, request>>
    /\ seen_available' = (seen_available \/ node'.status = "available")
    /\ UNCHANGED <<live, differs, first_run, deploys, pg_values>>
    /\ SeedUnchanged

\* the pending test without the test of the status
ModifyCheckIgnoresStatus ==
    /\ pc = "modify_check"
    /\ node' = live
    /\ IF node'.pending_modified_values # {} /\ ~is_active
       THEN /\ calls' = Append(calls, Call("reboot", NoArgs))
            /\ request' = "reboot"
            /\ required_restart' = TRUE
            /\ pc' = "deploy_wait_3"
       ELSE /\ required_restart' = FALSE
            /\ pc' = "idle"
            /\ UNCHANGED <<calls, request>>
    /\ seen_available' = (seen_available \/ node'.status = "available")
    /\ UNCHANGED <<live, differs, first_run, deploys, pg_values>>
    /\ SeedUnchanged

\* the rest of _modify_db_config, and deploy's test of its result
ModifyCheck ==
    /\ pc = "modify_check"
    /\ node' = live
    /\ IF node'.pending_modified_values # {} /\ node'.status # "modifying"
       THEN IF is_active
            THEN /\ required_restart' = FALSE
                 /\ pc' = "idle"
                 /\ UNCHANGED <<calls, request>>
            ELSE /\ calls' = Append(calls, Call("reboot", NoArgs))
                 /\ request' = "reboot"
                 /\ required_restart' = TRUE
                 /\ pc' = "deploy_wait_3"
       ELSE /\ required_restart' = FALSE
            /\ pc' = "idle"
            /\ UNCHANGED <<calls, request>>
    /\ seen_available' = (seen_available \/ node'.status = "available")
    /\ UNCHANGED <<live, differs, first_run, deploys, pg_values>>
    /\ SeedUnchanged

DeployWait3 == WaitUntilCreated("deploy_wait_3", "idle")

NextDeploy ==
    \/ ProviderCreate
    \/ ProviderStart
    \/ ProviderModified
    \/ ProviderRebooted
    \/ DeployCall
    \/ DeployWait1
    \/ ConfigureParameterGroup
    \/ DeployWait2
    \/ DeployGate
    \/ ModifyDbConfig
    \/ ModifyWait
    \/ ModifyCheck
    \/ DeployWait3

SpecDeploy == InitDeploy /\ [][NextDeploy]_vars

\* the loop of wait_until_created sleeps LAUNCH_REFRESH and polls again, with
\* no timeout: a wait that can make a round makes it
SpecDeployFair ==
    /\ SpecDeploy
    /\ WF_vars(DeployWait1)
    /\ WF_vars(DeployWait2)
    /\ WF_vars(ModifyWait)
    /\ WF_vars(DeployWait3)

-----------------------------------------------------------------------------
(* Public address lookup: get_ip *)

max_retries == 10

MaxIpCalls == 2

IsDigit(c) == c \in Range(DigitChar)

\* end of the match of (\d+\.){groups-1}\d+ starting at position i, 0 if none;
\* a greedy \d+ that gives back digits leaves a digit where '.' is needed, so
\* each group is a maximal run of digits
RECURSIVE MatchAt(_, _, _)
MatchAt(s, i, groups) ==
    IF i > Len(s) \/ ~IsDigit(s[i]) THEN 0
    ELSE LET run == CHOOSE j \in i..Len(s) :
                        /\ \A k \in i..j : IsDigit(s[k])
                        /\ (j = Len(s) \/ ~IsDigit(s[j + 1]))
         IN  IF groups = 1 THEN run
             ELSE IF run + 1 <= Len(s) /\ s[run + 1] = "."
                  THEN MatchAt(s, run + 2, groups - 1)
                  ELSE 0

\* re.search('\d+\.\d+\.\d+\.\d+', response): the leftmost match, as
\* match.group(0); <<>> stands for no match (a match is never empty)
ReSearch(s) ==
    LET starts == {i \in 1..Len(s) : MatchAt(s, i, 4) # 0}
    IN  IF starts = {} THEN <<>>
        ELSE LET i == CHOOSE i \in starts : \A j \in starts : i <= j
             IN  SubSeq(s, i, MatchAt(s, i, 4))

\* what urllib.urlopen(IP_SERVICE_URL).read() can do: raise, or return a body
Bodies ==
    { <<"a", "1", ".", "2", ".", "3", ".", "4", "b">>,
      <<"1", "0", ".", "0", ".", "0", ".", "9", "\n">>,
      <<"1", ".", "2", ".", "3">>,
      <<>> }

Responses ==
    {[kind |-> "raised", body |-> <<>>]}
        \cup {[kind |-> "body", body |-> b] : b \in Bodies}

\* "if self._local_ip"
IpTruthy(v) == v.k = "str" /\ v.s # <<>>

Bump(counts) == [counts EXCEPT ![Len(counts)] = @ + 1]

InitIp ==
    /\ pc = "ip_idle"
    /\ conf = CanonicalConf(FALSE)
    /\ live = IdleInstance
    /\ node = live
    /\ differs = FALSE
    /\ ControllerIdle
    /\ seen_available = FALSE
    /\ IpIdle

IpUnchanged ==
    UNCHANGED <<conf, live, node, differs, seed_node, seed_verification, is_active,
                seed_snapshot_id, lag, action, prompts, polls, calls, gsd,
                first_run, deploys, overrides, pg_values, required_restart,
                request, seen_available>>

\* get_ip entered without looking at the memoised address
GetIpCallUncached ==
    /\ pc \in {"ip_idle", "ip_raised"}
    /\ Len(requests) < MaxIpCalls
    /\ requests' = Append(requests, 0)
    /\ sleeps' = Append(sleeps, 0)
    /\ ip_returned' = Append(ip_returned, NoneV)
    /\ retries' = 0
    /\ pc' = "ip_lookup"
    /\ UNCHANGED <<local_ip, response>>
    /\ IpUnchanged

\* get_ip up to the loop: the memoised address is returned at once
GetIpCall ==
    /\ pc \in {"ip_idle", "ip_raised"}
    /\ Len(requests) < MaxIpCalls
    /\ requests' = Append(requests, 0)
    /\ sleeps' = Append(sleeps, 0)
    /\ IF IpTruthy(local_ip)
       THEN /\ ip_returned' = Append(ip_returned, local_ip)
            /\ pc' = "ip_idle"
            /\ UNCHANGED retries
       ELSE /\ ip_returned' = Append(ip_returned, NoneV)
            /\ retries' = 0
            /\ pc' = "ip_lookup"
    /\ UNCHANGED <<local_ip, response>>
    /\ IpUnchanged

\* one pass of "while not ip": the request, the search, and the bare except
\* that also catches the SystemExit of exit(1)
GetIpAttempt ==
    /\ pc = "ip_lookup"
    /\ \E r \in Responses :
        LET match == IF r.kind = "body" THEN ReSearch(r.body) ELSE <<>>
        IN  /\ response' = r
            /\ requests' = Bump(requests)
            /\ IF match # <<>>
               THEN /\ local_ip' = StrV(match)
                    /\ ip_returned' =
                           [ip_returned EXCEPT ![Len(ip_returned)] = StrV(match)]
                    /\ pc' = "ip_idle"
                    /\ UNCHANGED <<retries, sleeps>>
               ELSE IF retries > max_retries
                    THEN /\ pc' = IF r.kind = "raised" THEN "ip_raised"
                                  ELSE "ip_exited"
                         /\ UNCHANGED <<retries, sleeps, local_ip, ip_returned>>
                    ELSE /\ retries' = retries + 1
                         /\ sleeps' = Bump(sleeps)
                         /\ pc' = "ip_lookup"
                         /\ UNCHANGED <<local_ip, ip_returned>>
    /\ IpUnchanged

NextIp ==
    \/ GetIpCall
    \/ GetIpAttempt

SpecIp == InitIp /\ [][NextIp]_vars

-----------------------------------------------------------------------------
(* C1, C2 *)

DeployCallsOf(op, n) ==
    {i \in 1..Len(calls) : calls[i].op = op /\ calls[i].deploy = n}

AllCallsOf(op) == {i \in 1..Len(calls) : calls[i].op = op}

\* C1: on an active node no reboot call is ever issued, whatever the pending
\* modified values and the status observed, and _modify_db_config returns False.
C1_ActiveNodeNeverRebooted ==
    is_active => AllCallsOf("reboot") = {} /\ required_restart = FALSE

\* an active node whose modification left values pending while the status
\* was back to available: _modify_db_config returned without a reboot
C1_Witness ==
    /\ is_active
    /\ pc = "idle"
    /\ Len(deploys) = 1
    /\ DeployCallsOf("modify_dbinstance", 1) # {}
    /\ node.pending_modified_values # {}
    /\ node.status = "available"
    /\ request = None

BothNotFirstRun ==
    /\ Len(deploys) = 2
    /\ ~deploys[1].first_run
    /\ ~deploys[2].first_run

SecondDeployPastGate ==
    /\ Len(deploys) = 2
    /\ pc \in {"idle", "modify_db_config", "modify_wait", "modify_check",
               "deploy_wait_3"}

\* C2 as claimed: of two successive deploy(first_run=False) calls, with the
\* provider done with whatever the first one asked for, the second observes
\* no drift and issues neither modify nor reboot, so at most one modify call
\* is issued in total.
C2_SecondDeployIssuesNothing ==
    (BothNotFirstRun /\ request = None) =>
        /\ (SecondDeployPastGate => differs = FALSE)
        /\ DeployCallsOf("modify_dbinstance", 2) = {}
        /\ DeployCallsOf("reboot", 2) = {}
        /\ Cardinality(AllCallsOf("modify_dbinstance")) <= 1

\* C2 amended: each deploy call issues at most one modify and one reboot; and
\* when the live resource matches the declaration as the second call starts,
\* with nothing left for the provider to do, the second call observes no
\* drift and issues neither modify nor reboot.
C2_SecondDeployIssuesNothingWhenInSync ==
    /\ \A n \in 1..Len(deploys) :
           /\ Cardinality(DeployCallsOf("modify_dbinstance", n)) <= 1
           /\ Cardinality(DeployCallsOf("reboot", n)) <= 1
    /\ (BothNotFirstRun /\ deploys[2].in_sync) =>
           /\ (SecondDeployPastGate => differs = FALSE /\ pc = "idle")
           /\ DeployCallsOf("modify_dbinstance", 2) = {}
           /\ DeployCallsOf("reboot", 2) = {}
           /\ Cardinality(AllCallsOf("modify_dbinstance")) <= 1

\* the first call modified and rebooted a drifted node, the second found it
\* in sync and did nothing
C2_Witness ==
    /\ BothNotFirstRun
    /\ deploys[2].in_sync
    /\ ~deploys[1].in_sync
    /\ pc = "idle"
    /\ DeployCallsOf("modify_dbinstance", 1) # {}
    /\ DeployCallsOf("reboot", 1) # {}
    /\ AllCallsOf("parameter_apply") # {}

-----------------------------------------------------------------------------
(* C3 *)

AllSpace(s) == \A i \in 1..Len(s) : IsSpace(s[i])

\* t is s without its leading and trailing whitespace
IsTrimOf(t, s) ==
    \E i \in 0..Len(s) :
        /\ i + Len(t) <= Len(s)
        /\ t = SubSeq(s, i + 1, i + Len(t))
        /\ AllSpace(SubSeq(s, 1, i))
        /\ AllSpace(SubSeq(s, i + Len(t) + 1, Len(s)))
        /\ (t = <<>> \/ (~IsSpace(t[1]) /\ ~IsSpace(t[Len(t)])))

SubStrings(s) == {SubSeq(s, i, j) : i \in 1..(Len(s) + 1), j \in 0..Len(s)}

\* a and b are equal after stringifying, lower-casing and trimming
LooseEqual(a, b) ==
    \E t \in SubStrings(Lower(Str(a))) :
        IsTrimOf(t, Lower(Str(a))) /\ IsTrimOf(t, Lower(Str(b)))

CheckedFields == {"allocated_storage", "instance_class",
                  "preferred_maintenance_window", "backup_retention_period",
                  "preferred_backup_window", "multi_az"}

\* the declared parameter a live field is compared with
ConfKey(field) ==
    [allocated_storage |-> "rds_allocated_storage",
     instance_class |-> "rds_instance_class",
     preferred_maintenance_window |-> "rds_preferred_maintenance_window",
     backup_retention_period |-> "rds_backup_retention_period",
     preferred_backup_window |-> "rds_preferred_backup_window",
     multi_az |-> "rds_multi_az"][field]

InSync ==
    /\ \A f \in CheckedFields : LooseEqual(node[f], conf[ConfKey(f)])
    /\ \E i \in 1..Len(conf.rds_security_groups) :
           conf.rds_security_groups[i] = node.security_group
    /\ node.parameter_group = conf.rds_parameter_group

\* C3: _parameters_differ returns False exactly when the six checked fields match
\* after str/lower/strip, the live security group is one of the declared ones and
\* the live parameter group name equals the declared one.
C3_DifferIffOutOfSync ==
    pc = "compared" => (differs = FALSE <=> InSync)

\* a comparison that found no drift although the declared value carries
\* whitespace and capitals, a number is declared as a string, a boolean is
\* declared as a string, and two security groups are declared
C3_Witness ==
    /\ pc = "compared"
    /\ differs = FALSE
    /\ conf.rds_instance_class = StrV(<<" ", "A", "\t">>)
    /\ conf.rds_allocated_storage.k = "str"
    /\ conf.rds_multi_az.k = "str"
    /\ Len(conf.rds_security_groups) = 2

-----------------------------------------------------------------------------
(* C4 .. C10 *)

CallsOf(op) == {i \in 1..Len(calls) : calls[i].op = op}

CountOf(op) == Cardinality(CallsOf(op))

Launched == pc \in {"register", "created"}

OpSnapshot == "snapshot"
OpCreate == "create_dbinstance"
OpRestore == "restore_dbinstance_from_dbsnapshot"
OpPointInTime == "restore_dbinstance_from_point_in_time"

\* C4: without a seed node get_seed_data neither prompts, nor snapshots, nor ends
\* the run, leaves seed_snapshot_id None, and the launch that follows creates.
C4_NoSeedNodeResolvesBlank ==
    (~seed_node /\ gsd # "none") =>
        /\ prompts = 0
        /\ gsd \in {"prompting", "returned"}
        /\ seed_snapshot_id = None
        /\ CountOf(OpSnapshot) = 0
        /\ (Launched => CountOf(OpCreate) = 1)

StaleSeed == seed_node /\ ~seed_verification /\ lag > MAX_RESTORABLE_LAG

\* C5: with a stale seed node and no verification, whatever the operator
\* answers, no point-in-time restore against the seed node is issued.
C5_StaleSeedNeverRestoredPointInTime ==
    (StaleSeed /\ gsd # "none") => CountOf(OpPointInTime) = 0

\* C6: with a stale seed node and no verification get_seed_data prompts, asks
\* again until the answer is F, S or E, and on F the run ends with no snapshot,
\* create or restore call issued.
C6_StaleSeedPromptsAndAbortIssuesNothing ==
    StaleSeed =>
        /\ (gsd \in {"returned", "exited", "raised"} =>
                prompts >= 1 /\ action \in opts)
        /\ (pc = "chosen" => action \in opts)
        /\ (gsd = "exited" => action = "F" /\ pc = "exited")
        /\ (action = "F" =>
                /\ pc \in {"chosen", "exited"}
                /\ CountOf(OpSnapshot) = 0
                /\ CountOf(OpCreate) = 0
                /\ CountOf(OpRestore) = 0
                /\ CountOf(OpPointInTime) = 0)

\* the operator is asked three times and aborts
C6_Witness ==
    StaleSeed /\ pc = "exited" /\ prompts = MaxPrompts /\ calls = NoCalls

FreshSeed == seed_node /\ ~seed_verification /\ lag <= MAX_RESTORABLE_LAG

\* C7: with a seed node whose lag is at most 15 minutes and no verification,
\* get_seed_data returns without prompt or snapshot and the launch issues
\* exactly one point-in-time restore with use_latest=True and nothing else.
C7_FreshSeedRestoredPointInTime ==
    (FreshSeed /\ gsd # "none") =>
        /\ gsd = "returned"
        /\ prompts = 0
        /\ action = None
        /\ seed_snapshot_id = None
        /\ CountOf(OpSnapshot) = 0
        /\ CountOf(OpCreate) = 0
        /\ CountOf(OpRestore) = 0
        /\ polls = <<>>
        /\ CountOf(OpPointInTime) = IF Launched THEN 1 ELSE 0
        /\ \A i \in CallsOf(OpPointInTime) :
               /\ calls[i].args.use_latest = TRUE
               /\ calls[i].args.source_instance_id = "seed"

\* a seed exactly 15 minutes behind, restored point-in-time
C7_Witness ==
    /\ FreshSeed
    /\ gsd = "returned"
    /\ lag = MAX_RESTORABLE_LAG
    /\ pc = "created"
    /\ CountOf(OpPointInTime) = 1

\* C8: with a seed node and verification requested, get_seed_data takes exactly
\* one snapshot without prompting, whatever the lag, and the launch restores
\* from that snapshot's id, never point-in-time, never create.
C8_VerifiedSeedSnapshotted ==
    (seed_node /\ seed_verification /\ gsd # "none") =>
        /\ gsd = "returned"
        /\ prompts = 0
        /\ action = None
        /\ CountOf(OpSnapshot) = 1
        /\ \A i \in CallsOf(OpSnapshot) : seed_snapshot_id = calls[i].args.label
        /\ CountOf(OpCreate) = 0
        /\ CountOf(OpPointInTime) = 0
        /\ CountOf(OpRestore) = IF Launched THEN 1 ELSE 0
        /\ \A i \in CallsOf(OpRestore), j \in CallsOf(OpSnapshot) :
               calls[i].args.identifier = calls[j].args.label

\* a verified seed far behind the threshold, snapshotted without a prompt and
\* restored from the fresh snapshot
C8_Witness ==
    /\ seed_node
    /\ seed_verification
    /\ gsd = "returned"
    /\ lag > MAX_RESTORABLE_LAG
    /\ pc = "created"
    /\ CountOf(OpRestore) = 1

\* C9: a launch from a snapshot issues restore-from-snapshot only after a poll
\* returned 'available', exactly once, with the resolved id, and issues neither
\* create nor point-in-time restore, whatever statuses the polls return.
C9_RestoreAfterSnapshotAvailable ==
    /\ (CountOf(OpRestore) > 0 =>
            /\ polls # <<>>
            /\ polls[Len(polls)] = "available"
            /\ \A i \in 1..(Len(polls) - 1) : polls[i] # "available")
    /\ (pc = "launch_restore" => polls # <<>> /\ polls[Len(polls)] = "available")
    /\ (pc = "launch_poll" => CountOf(OpRestore) = 0)
    /\ ((Truthy(seed_snapshot_id)
            /\ (Launched \/ pc \in {"launch_poll", "launch_restore"})) =>
            /\ CountOf(OpCreate) = 0
            /\ CountOf(OpPointInTime) = 0
            /\ CountOf(OpRestore) = IF Launched THEN 1 ELSE 0
            /\ \A i \in CallsOf(OpRestore) :
                   calls[i].args.identifier = seed_snapshot_id)

\* a snapshot reported creating, then failed, then available, and restored
C9_Witness ==
    /\ pc = "created"
    /\ polls = <<"creating", "failed", "available">>
    /\ seed_snapshot_id = "rds-snap-1"
    /\ CountOf(OpRestore) = 1

\* C10: a launch with no seed node and no seed snapshot issues exactly one
\* create_dbinstance with multi_az as declared and no restore or snapshot call.
C10_BlankNodeCreated ==
    (~seed_node /\ ~Truthy(seed_snapshot_id) /\ Launched) =>
        /\ CountOf(OpCreate) = 1
        /\ \A i \in CallsOf(OpCreate) : calls[i].args.multi_az = conf.rds_multi_az
        /\ CountOf(OpRestore) = 0
        /\ CountOf(OpPointInTime) = 0
        /\ CountOf(OpSnapshot) = 0

\* a blank node declared multi-AZ, created
C10_Witness ==
    /\ ~seed_node
    /\ seed_snapshot_id = None
    /\ gsd = "none"
    /\ pc = "created"
    /\ conf.rds_multi_az = BoolV(TRUE)
    /\ CountOf(OpCreate) = 1

-----------------------------------------------------------------------------
(* C11, C12, C19 *)

NoPattern(r) == r.kind = "body" /\ ReSearch(r.body) = <<>>

\* C11: a response of the discovery endpoint without a dotted-quad pattern is
\* fatal at once: once the last response has no such pattern the process has
\* terminated, so no sleep and no further request follows it.
C11_NoPatternImmediatelyFatal ==
    NoPattern(response) => pc = "ip_exited"

\* C12: within one call of get_ip there are at most max_retries retries, each
\* after one sleep, so at most max_retries + 1 requests.
C12_AtMostTenRetries ==
    \A i \in 1..Len(requests) :
        /\ requests[i] <= max_retries + 1
        /\ sleeps[i] <= max_retries

\* C19: once a call of get_ip has returned an address, every later call
\* returns the same address and makes no request (and sleeps never).
C19_IpFetchedOnce ==
    \A j \in 1..Len(ip_returned) : \A i \in 1..Len(ip_returned) :
        (j < i /\ ip_returned[j] # NoneV)
            => /\ ip_returned[i] = ip_returned[j]
               /\ requests[i] = 0
               /\ sleeps[i] = 0

C19_Witness ==
    /\ Len(ip_returned) >= 2
    /\ ip_returned[1] = StrV(<<"1", ".", "2", ".", "3", ".", "4">>)
    /\ ip_returned[2] = ip_returned[1]
    /\ requests[1] >= 2
    /\ requests[2] = 0

-----------------------------------------------------------------------------
(* C13 .. C17 *)

OpModify == "modify_dbinstance"
OpReboot == "reboot"
OpApply == "parameter_apply"

BeforeGate == {"deploy_wait_1", "configure_parameter_group", "deploy_wait_2",
               "deploy_gate"}
AfterModify == {"modify_wait", "modify_check", "deploy_wait_3"}

\* the deploy call n issued exactly one modify call, with this apply_immediately
OneModify(n, apply_immediately) ==
    /\ Cardinality(DeployCallsOf(OpModify, n)) = 1
    /\ \A i \in DeployCallsOf(OpModify, n) :
           calls[i].args.apply_immediately = apply_immediately

NoModifyNoReboot(n) ==
    DeployCallsOf(OpModify, n) = {} /\ DeployCallsOf(OpReboot, n) = {}

\* C13: deploy reaches the modify call iff first_run or _parameters_differ
\* reported drift; it then issues exactly one modify call, with
\* apply_immediately = first_run; a deploy that is not a first run and saw no
\* drift returns with no modify and no reboot call issued.
C13_ModifyIffFirstRunOrDrift ==
    LET n == Len(deploys)
    IN  /\ pc \in BeforeGate => NoModifyNoReboot(n)
        /\ pc = "modify_db_config"
               => (first_run \/ differs) /\ NoModifyNoReboot(n)
        /\ pc \in AfterModify
               => (first_run \/ differs) /\ OneModify(n, first_run)
        /\ (pc = "idle" /\ n >= 1)
               => IF first_run \/ differs
                  THEN OneModify(n, first_run)
                  ELSE NoModifyNoReboot(n)
        /\ \A d \in 1..n :
               \A i \in DeployCallsOf(OpModify, d) :
                   calls[i].args.apply_immediately = deploys[d].first_run

C13_Witness ==
    /\ pc = "idle"
    /\ Len(deploys) = 2
    /\ deploys[1].first_run
    /\ ~first_run
    /\ differs
    /\ OneModify(1, TRUE)
    /\ OneModify(2, FALSE)

\* the test of lines 273-276 and 278 on the instance just refreshed
RestartCondition(n) ==
    /\ n.pending_modified_values # {}
    /\ n.status # "modifying"
    /\ ~is_active

\* C14: when _modify_db_config returns, it has issued exactly one modify call,
\* and it has issued a reboot and returned True iff the refresh made after the
\* post-modify wait showed pending values, a status other than 'modifying' and
\* the node is not active; otherwise no reboot and False.
C14_RebootIffPendingNotModifyingNotActive ==
    [][(pc = "modify_check" /\ pc' # "modify_check")
          => /\ node' = live
             /\ required_restart' = RestartCondition(node')
             /\ calls' = IF RestartCondition(node')
                         THEN Append(calls, Call(OpReboot, NoArgs))
                         ELSE calls
             /\ pc' = IF required_restart' THEN "deploy_wait_3" ELSE "idle"
             /\ Cardinality({i \in 1..Len(calls') :
                                 /\ calls'[i].op = OpModify
                                 /\ calls'[i].deploy = Len(deploys)}) = 1
             /\ Cardinality({i \in 1..Len(calls') :
                                 /\ calls'[i].op = OpReboot
                                 /\ calls'[i].deploy = Len(deploys)})
                    = IF required_restart' THEN 1 ELSE 0]_vars

C14_Witness ==
    /\ pc = "deploy_wait_3"
    /\ required_restart
    /\ RestartCondition(node)
    /\ Cardinality(DeployCallsOf(OpReboot, Len(deploys))) = 1
    /\ calls[Len(calls)].op = OpReboot

\* the step appends one call of this operation
Issues(op) ==
    /\ Len(calls') = Len(calls) + 1
    /\ calls'[Len(calls')].op = op

\* within each deploy call: overrides, then modify, then reboot
CallsInOrder(cs) ==
    \A i \in 1..Len(cs) : \A j \in 1..Len(cs) :
        (cs[i].deploy = cs[j].deploy /\ i < j)
            => /\ cs[i].op = OpModify => cs[j].op # OpApply
               /\ cs[i].op = OpReboot => cs[j].op \notin {OpApply, OpModify}

\* C15: a modify call is issued only after a refresh has observed 'available'
\* since the overrides were pushed, a reboot only after a refresh has observed
\* 'available' since the modify call, and within a deploy every override call
\* precedes the modify call, which precedes the reboot.
C15_DeployOrdering ==
    [][/\ Issues(OpModify) => seen_available
       /\ Issues(OpReboot) => seen_available
       /\ CallsInOrder(calls')]_vars

C15_Witness ==
    \E i \in DeployCallsOf(OpApply, Len(deploys)) :
        \E j \in DeployCallsOf(OpModify, Len(deploys)) :
            \E k \in DeployCallsOf(OpReboot, Len(deploys)) :
                i < j /\ j < k /\ seen_available

\* C16: whenever deploy has returned, the status it fetched last for the node
\* is 'available'.
C16_DeployReturnsAvailable ==
    (pc = "idle" /\ Len(deploys) >= 1) => node.status = "available"

WaitPositions == {"deploy_wait_1", "deploy_wait_2", "modify_wait", "deploy_wait_3"}

\* a round of wait_until_created that the state shows: it returned, or its
\* refresh changed what the controller holds
WaitRound == pc \in WaitPositions /\ (pc' # pc \/ node' # node)

\* C17: wait_until_created returns only on a refresh that shows 'available' and
\* changes nothing at the provider; if the provider ends up reporting
\* 'available' for good every wait returns; if it never reports 'available'
\* the first wait of deploy never returns and no modify call is ever issued.
C17_WaitUntilCreated ==
    /\ [][WaitRound
            => /\ node' = live
               /\ (pc' # pc => node'.status = "available")
               /\ UNCHANGED <<live, request, calls, pg_values>>]_vars
    /\ <>[](live.status = "available")
           => \A w \in WaitPositions : [](pc = w => <>(pc # w))
    /\ [](live.status # "available")
           => [](AllCallsOf(OpModify) = {} /\ pc \in {"idle", "deploy_wait_1"})

C17_Witness ==
    /\ pc = "idle"
    /\ Len(deploys) >= 1
    /\ required_restart
    /\ DeployCallsOf(OpReboot, Len(deploys)) # {}
    /\ request = None
    /\ node.status = "available"

-----------------------------------------------------------------------------
(* C18 *)

LaunchOps == {OpCreate, OpRestore, OpPointInTime}
RegistryOps == {"set_active_node", "set_pending_node"}

\* C18: create_new_node issues one launch call, restore-from-snapshot when a
\* seed snapshot id is set (a non-empty id, seed node or not), else the
\* point-in-time restore when there is a seed node, else create; then one
\* registry call, set_active_node iff is_active, then get_node; nothing else,
\* and no wait on the new resource.
C18_OneLaunchThenRegister ==
    /\ Cardinality({i \in 1..Len(calls) : calls[i].op \in LaunchOps}) <= 1
    /\ Cardinality({i \in 1..Len(calls) : calls[i].op \in RegistryOps}) <= 1
    /\ pc \notin WaitPositions
    /\ pc = "created"
        => /\ CountOf("get_new_rds_label") = 1
           /\ \A k \in CallsOf("get_new_rds_label") :
               /\ Len(calls) = k + 3
               /\ calls[k + 1].op =
                      IF Truthy(seed_snapshot_id) THEN OpRestore
                      ELSE IF seed_node THEN OpPointInTime
                      ELSE OpCreate
               /\ calls[k + 2].op =
                      IF is_active THEN "set_active_node" ELSE "set_pending_node"
               /\ calls[k + 3].op = "get_node"
               /\ \A i \in 1..(k - 1) : calls[i].op = OpSnapshot
           /\ node = IdleInstance

C18_Witness ==
    /\ pc = "created"
    /\ seed_node
    /\ Truthy(seed_snapshot_id)
    /\ is_active
    /\ CountOf(OpRestore) = 1
    /\ CountOf("set_active_node") = 1
    /\ calls[Len(calls)].op = "get_node"

-----------------------------------------------------------------------------
(* C20 *)

\* the override calls of the deploy call d, in order
ApplySeq(d) == SelectSeq(calls, LAMBDA c : c.op = OpApply /\ c.deploy = d)

\* the deploy call d has run configure_parameter_group
Pushed(d) ==
    \/ d < Len(deploys)
    \/ d = Len(deploys) /\ pc \notin {"deploy_wait_1", "configure_parameter_group"}

\* C20: each call of configure_parameter_group issues one immediate apply per
\* entry of the overrides, in the order of the entries; a second call issues
\* the same calls again and leaves the parameter group as the first call
\* left it.
C20_ConfigureParameterGroupIdempotent ==
    /\ \A d \in 1..Len(deploys) :
           IF Pushed(d)
           THEN /\ Len(ApplySeq(d)) = Len(overrides)
                /\ \A i \in 1..Len(overrides) :
                       ApplySeq(d)[i].args =
                           [group |-> conf.rds_parameter_group,
                            name |-> overrides[i].name,
                            value |-> overrides[i].value,
                            immediate |-> TRUE]
           ELSE ApplySeq(d) = <<>>
    /\ pg_values = IF \E d \in 1..Len(deploys) : Pushed(d) THEN overrides ELSE <<>>

C20_Witness ==
    /\ Len(deploys) = 2
    /\ Pushed(2)
    /\ Len(overrides) = 2
    /\ Len(ApplySeq(1)) = 2
    /\ ApplySeq(2)[2].args = ApplySeq(1)[2].args
    /\ pg_values = overrides

=============================================================================
